---------------------------- MODULE Spec2Model ----------------------------
(***************************************************************************)
(* Camelottie: PNG sequence / video -> Lottie frame animation.             *)
(*                                                                         *)
(* The model follows src/Camelottie.js: optimizeImages copies its config   *)
(* into the process-wide `global` object, processes every input file, and  *)
(* then createLottieAnimation selects frames, resolves crop and scale      *)
(* geometry, builds one asset and one layer per selected frame and writes  *)
(* animation.json.  Around it: the optimize command of the CLI (temp       *)
(* directory, exit code), a process that calls optimizeImages again, and   *)
(* a second call that overlaps the first at an await (ParallelSpec).       *)
(*                                                                         *)
(* JavaScript numbers are IEEE-754 doubles.  The frame-selection loop      *)
(* accumulates a double (i += frameSkipRatio) and the scale rule divides   *)
(* and multiplies doubles, so those operations are modelled bit-exactly    *)
(* (53-bit significand, round to nearest, ties to even).                   *)
(***************************************************************************)
EXTENDS Integers, Sequences, FiniteSets, TLC

-----------------------------------------------------------------------------
(* IEEE-754 double arithmetic, as far as the program uses it.              *)
(* A double is [sgn, e, m]: value = sgn * SUM_j m[j] * 2^(e + 1 - j),      *)
(* m a sequence of Prec bits with m[1] = 1; zero has m all 0.              *)

Prec == 53

Zeros(n) == SubSeq([j \in 1..n |-> 0], 1, n)

FZero == [sgn |-> 1, e |-> 0, m |-> Zeros(Prec)]

IsZero(x) == x.m[1] = 0

Abs(n) == IF n < 0 THEN -n ELSE n

Sign(n) == IF n < 0 THEN -1 ELSE 1

\* binary increment of a bit sequence (wraps to all zeros on overflow):
\* a bit flips when every bit to its right is 1
Inc(b) ==
  LET n == Len(b)
  IN  SubSeq([j \in 1..n |->
                IF \A k \in (j + 1)..n : b[k] = 1 THEN 1 - b[j] ELSE b[j]],
             1, n)

\* round the exact value sgn * 0.b[1]b[2]... * 2^(e+1) (b[1] = 1, plus a
\* non-zero tail when sticky) to Prec bits: nearest, ties to even
FRound(sgn, e, b, sticky) ==
  LET L     == Len(b)
      m0    == SubSeq([j \in 1..Prec |-> IF j <= L THEN b[j] ELSE 0], 1, Prec)
      guard == IF L > Prec THEN b[Prec + 1] ELSE 0
      rest  == sticky \/ \E j \in (Prec + 2)..L : b[j] = 1
      up    == guard = 1 /\ (rest \/ m0[Prec] = 1)
      ovf   == \A j \in 1..Prec : m0[j] = 1
  IN  IF ~up THEN [sgn |-> sgn, e |-> e, m |-> m0]
      ELSE IF ovf
        THEN [sgn |-> sgn, e |-> e + 1,
              m |-> <<1>> \o Zeros(Prec - 1)]
        ELSE [sgn |-> sgn, e |-> e, m |-> Inc(m0)]

\* <<e, num, den>> with a / b = (num / den) * 2^e and 1 <= num / den < 2
RECURSIVE Normalize(_, _, _)
Normalize(e, num, den) ==
  IF num >= 2 * den THEN Normalize(e + 1, num, 2 * den)
  ELSE IF num < den THEN Normalize(e - 1, 2 * num, den)
  ELSE <<e, num, den>>

\* Long arithmetic works on bytes: eight bits of a bit sequence at a time.
P2 == <<1, 2, 4, 8, 16, 32, 64, 128>>

\* the k-th byte of a bit sequence whose length is a multiple of 8
Byte(b, k) ==
  LET o == 8 * (k - 1)
  IN  b[o + 1] * 128 + b[o + 2] * 64 + b[o + 3] * 32 + b[o + 4] * 16
      + b[o + 5] * 8 + b[o + 6] * 4 + b[o + 7] * 2 + b[o + 8]

\* the bit sequence of a sequence of bytes
BytesToBits(B) ==
  LET n == 8 * Len(B)
  IN  SubSeq([j \in 1..n |-> (B[(j + 7) \div 8] \div P2[8 - ((j - 1) % 8)]) % 2],
             1, n)

\* a bit sequence without its leading zeros
StripZeros(b) ==
  LET first == CHOOSE j \in 1..Len(b) : b[j] = 1 /\ \A k \in 1..(j - 1) : b[k] = 0
  IN  SubSeq(b, first, Len(b))

\* the first n bytes of the binary expansion of rem / den (0 <= rem < den),
\* followed by the remainder left
RECURSIVE DivBytes(_, _, _)
DivBytes(rem, den, n) ==
  IF n = 0 THEN <<rem>>
  ELSE <<(256 * rem) \div den>> \o DivBytes((256 * rem) % den, den, n - 1)

\* the double nearest to a / b, for integers a and b # 0
FDiv(a, b) ==
  IF a = 0 THEN FZero
  ELSE LET n  == Normalize(0, Abs(a), Abs(b))
           db == DivBytes(n[2] - n[3], n[3], 7)
       IN  FRound(Sign(a) * Sign(b), n[1],
                  <<1>> \o BytesToBits(SubSeq(db, 1, 7)), db[8] # 0)

\* Infinity and NaN: the results of n / 0 and 0 / 0
Infinity == [sgn |-> 1, e |-> 1024, m |-> <<1>> \o Zeros(Prec - 1)]

NaN == [sgn |-> 0, e |-> 1024, m |-> <<1>> \o Zeros(Prec - 1)]

Finite(x) == x.e < 1024

\* a / b for integers a >= 0 and b, as the language divides: n / 0 is
\* Infinity, 0 / 0 is NaN and 0 / -n is (negative) zero
Quotient(a, b) ==
  IF b # 0 THEN FDiv(a, b)
  ELSE IF a = 0 THEN NaN
  ELSE Infinity

\* x + y for doubles of the same sign (or zero), or with one of them not
\* finite
FAdd(x, y) ==
  IF ~Finite(y) THEN y
  ELSE IF ~Finite(x) THEN x
  ELSE IF IsZero(x) THEN y
  ELSE IF IsZero(y) THEN x
  ELSE LET hi == IF x.e >= y.e THEN x ELSE y
           lo == IF x.e >= y.e THEN y ELSE x
           d  == hi.e - lo.e
           nb == (Prec + d) \div 8 + 1
           z  == 8 * nb - (Prec + d)
           a  == Zeros(z) \o hi.m \o Zeros(d)
           b  == Zeros(z + d) \o lo.m
           AB == SubSeq([k \in 1..nb |-> Byte(a, k) + Byte(b, k)], 1, nb)
           carry[k \in 0..nb] ==
             IF k = nb THEN 0 ELSE (AB[k + 1] + carry[k + 1]) \div 256
           S  == SubSeq([k \in 1..nb |-> (AB[k] + carry[k]) % 256], 1, nb)
           s  == StripZeros(BytesToBits(S))
       IN  FRound(x.sgn, lo.e + Len(s) - Prec, s, FALSE)

\* binary digits of a natural number, most significant first (0 -> <<>>)
RECURSIVE NatBits(_)
NatBits(n) == IF n = 0 THEN <<>> ELSE Append(NatBits(n \div 2), n % 2)

\* x * k for a double x and an integer k (exactly representable)
FMulInt(x, k) ==
  IF IsZero(x) \/ k = 0 THEN FZero
  ELSE LET ka  == Abs(k)
           xb  == Zeros(3) \o x.m
           X   == SubSeq([j \in 1..7 |-> Byte(xb, j)], 1, 7)
           carry[j \in 0..7] ==
             IF j = 7 THEN 0 ELSE (X[j + 1] * ka + carry[j + 1]) \div 256
           P   == SubSeq([j \in 1..7 |-> (X[j] * ka + carry[j]) % 256], 1, 7)
           p   == StripZeros(NatBits(carry[0]) \o BytesToBits(P))
       IN  FRound(x.sgn * Sign(k), x.e + Len(p) - Prec, p, FALSE)

\* value of the first n bits of b as a natural number
RECURSIVE BitsVal(_, _)
BitsVal(b, n) == IF n = 0 THEN 0 ELSE 2 * BitsVal(b, n - 1) + b[n]

\* integer part of |x| (|x| < 2^31)
IntPart(x) == IF x.e < 0 THEN 0 ELSE BitsVal(x.m, x.e + 1)

\* the 2^-1 bit of |x|
HalfBit(x) ==
  IF x.e < -1 \/ x.e + 2 > Prec THEN 0 ELSE x.m[x.e + 2]

\* |x| has a non-zero bit below 2^k, k = 0 (fraction) or k = -1
LowBits(x, k) == \E j \in 1..Prec : j > x.e + 1 - k /\ x.m[j] = 1

\* Math.floor
MathFloor(x) ==
  IF x.sgn = 1 THEN IntPart(x)
  ELSE -(IntPart(x) + IF LowBits(x, 0) THEN 1 ELSE 0)

\* Math.round: nearest integer, ties towards +Infinity
MathRound(x) ==
  IF x.sgn = 1 THEN IntPart(x) + HalfBit(x)
  ELSE -(IntPart(x) + IF HalfBit(x) = 1 /\ LowBits(x, -1) THEN 1 ELSE 0)

-----------------------------------------------------------------------------
(* JavaScript values: a setting is null or a number.                       *)

Null == <<>>

Num(n) == <<n>>

\* truthiness of a number-or-null: null and 0 are falsy
Truthy(v) == v # Null /\ v[1] # 0

\* v || w, for a number w
OrElse(v, w) == IF Truthy(v) THEN v[1] ELSE w

\* variant: the requested extent is not clamped to the frame
Min_NoClamp(a, b) == a

Min(a, b) == IF a <= b THEN a ELSE b

\* x < n for a double x >= 0 or finite and an integer n: false for
\* Infinity and for NaN
FLess(x, n) == Finite(x) /\ MathFloor(x) < n

-----------------------------------------------------------------------------
(* Inputs.                                                                 *)

MaxFrames == 10
MaxRate == 5
MaxDim == 3
MaxScale == 3
MaxSelected == 80   \* where a selection loop that never ends is cut off

Opt(S) == {Null} \cup {Num(n) : n \in S}

\* the defaults of optimizeImages' config parameter
DefaultConfig ==
  [isVideo |-> FALSE, output |-> <<"output">>,
   format |-> "png", lottieWidth |-> Null, lottieHeight |-> Null,
   cropWidth |-> Null, cropHeight |-> Null, cropFromCenter |-> TRUE,
   lottieFrameRate |-> 15, originalFrameRate |-> 30,
   selfContainedLottie |-> TRUE]

\* an input directory: how many PNG files it holds and the size of the
\* processed (resized) frames
Source(n, w, h) == [count |-> n, width |-> w, height |-> h]

\* frame counts and frame rates vary, geometry is left at its defaults
SelectionInputs ==
  { [config |-> [DefaultConfig EXCEPT !.originalFrameRate = o,
                                      !.lottieFrameRate = t],
     source |-> Source(n, 2, 2)] :
    n \in 0..MaxFrames, o \in 1..MaxRate, t \in 1..MaxRate }

\* frame sizes, crop and scale requests vary over one frame
GeometryInputs ==
  { [config |-> [DefaultConfig EXCEPT !.cropWidth = cw, !.cropHeight = ch,
                                      !.cropFromCenter = cc,
                                      !.lottieWidth = lw, !.lottieHeight = lh],
     source |-> Source(1, w, h)] :
    w \in 1..MaxDim, h \in 1..MaxDim,
    cw \in Opt({-1} \cup 1..(MaxDim + 1)), ch \in Opt({-1} \cup 1..(MaxDim + 1)),
    cc \in BOOLEAN,
    lw \in Opt(1..MaxScale), lh \in Opt(1..MaxScale) }

\* output format and embed mode vary, with and without a crop
ModeInputs ==
  { [config |-> [DefaultConfig EXCEPT !.format = f, !.selfContainedLottie = sc,
                                      !.cropWidth = cw],
     source |-> Source(3, 2, 2)] :
    f \in {"png", "webp"}, sc \in BOOLEAN, cw \in {Null, Num(1)} }

\* the scenarios of the documentation: 121 frames at 30 -> 15 fps; a
\* 600x800 frame cropped to 300x400 from the centre; the same scaled to
\* width 200; a crop width of 900 against a width of 600
ScenarioInputs ==
  { [config |-> DefaultConfig, source |-> Source(121, 2, 2)],
    [config |-> [DefaultConfig EXCEPT !.cropWidth = Num(300),
                                      !.cropHeight = Num(400)],
     source |-> Source(1, 600, 800)],
    [config |-> [DefaultConfig EXCEPT !.cropWidth = Num(300),
                                      !.cropHeight = Num(400),
                                      !.lottieWidth = Num(200)],
     source |-> Source(1, 600, 800)],
    [config |-> [DefaultConfig EXCEPT !.cropWidth = Num(900)],
     source |-> Source(1, 600, 800)] }

\* frame rates of which one is zero or negative
NonPositiveRates ==
  { r \in (0..2) \X (-1..2) : r[1] <= 0 \/ r[2] <= 0 }

InvalidRateInputs ==
  { [config |-> [DefaultConfig EXCEPT !.originalFrameRate = r[1],
                                      !.lottieFrameRate = r[2]],
     source |-> Source(n, 2, 2)] :
    n \in 0..2, r \in NonPositiveRates }

Inputs ==
  SelectionInputs \cup GeometryInputs \cup ModeInputs \cup ScenarioInputs
  \cup InvalidRateInputs

\* configurations for a process that calls optimizeImages more than once:
\* the defaults; a crop and a width; another format, embed mode and rates
CallConfigs ==
  { DefaultConfig,
    [DefaultConfig EXCEPT !.cropWidth = Num(1), !.lottieWidth = Num(2)],
    [DefaultConfig EXCEPT !.format = "webp", !.selfContainedLottie = FALSE,
                          !.originalFrameRate = 2, !.lottieFrameRate = 1] }

\* a first call and the call made after (or while) it runs, on the same
\* input directory
CallInputs ==
  { [config |-> c1, later |-> <<c2>>, source |-> Source(3, 3, 2)] :
    c1 \in CallConfigs, c2 \in CallConfigs }

\* what the user types after --fps and --original-fps: nothing (Null) or a
\* decimal numeral, given by its digits
NoOptions == [fps |-> Null, originalFps |-> Null]

FpsArguments == {Null, <<<<5>>>>, <<<<1, 5>>>>, <<<<2, 0>>>>}

OriginalFpsArguments == {Null, <<<<2, 4>>>>, <<<<3, 0>>>>}

\* runs of the optimize command: a PNG directory or a video, with and
\* without frames, with a valid and with a negative crop width, with and
\* without frame rate options
CommandInputs ==
  { [config |-> [DefaultConfig EXCEPT !.isVideo = v, !.cropWidth = cw],
     source |-> Source(n, 2, 2),
     options |-> [fps |-> f, originalFps |-> o]] :
    v \in BOOLEAN, cw \in {Null, Num(1), Num(-1)}, n \in {0, 2},
    f \in FpsArguments, o \in OriginalFpsArguments }

-----------------------------------------------------------------------------
(* State.                                                                  *)

VARIABLES
  config,           \* the argument of the optimizeImages call that runs
  source,           \* the input directory (or the frames of the video)
  pc,               \* where the run stands
  global,           \* the process-wide settings (global.*)
  files,            \* the PNG file names found, in directory order
  processed,        \* how many files the processing loop has finished
  frameSkipRatio,   \* originalFrameRate / lottieFrameRate (a double)
  i,                \* the selection loop's position (a double)
  selectedFrames,   \* the frames selected so far
  originalMetadata, \* the size of the first processed frame
  geometry,         \* the resolved crop and output size
  lottieData,       \* the document under construction
  written,          \* this call has written animation.json
  animationJson,    \* the content of animation.json
  lottieFile,       \* the path animation.json was written to, <<>> if none
  error,            \* why the run failed, "" while it has not
  produced,         \* the image files on disk: <<directory, base, kind, ext>>
  pending,          \* the configs of the calls the process makes later
  suspended,        \* calls that have started and wait at their first await
  previous,         \* the outcomes of the calls that have returned
  command           \* the optimize command: its temp directory and exit

vars == <<config, source, pc, global, files, processed, frameSkipRatio, i,
          selectedFrames, originalMetadata, geometry, lottieData, written,
          animationJson, lottieFile, error, produced, pending, suspended, previous,
          command>>

inputVars == <<config, source>>

selectionVars == <<frameSkipRatio, i, selectedFrames>>

documentVars ==
  <<originalMetadata, geometry, lottieData, written, animationJson, lottieFile>>

callVars == <<pending, suspended, previous>>

NoGlobal ==
  [outputDir |-> <<>>, outputFormat |-> "", selfContainedLottie |-> TRUE,
   lottieFrameRate |-> 0, originalFrameRate |-> 0,
   lottieWidth |-> Null, lottieHeight |-> Null, maintainAspectRatio |-> TRUE,
   cropWidth |-> Null, cropHeight |-> Null, cropFromCenter |-> TRUE]

NoGeometry ==
  [croppedWidth |-> 0, croppedHeight |-> 0, cropOffsetX |-> 0,
   cropOffsetY |-> 0, width |-> 0, height |-> 0]

NoDocument == [fr |-> 0, ip |-> 0, op |-> 0, w |-> 0, h |-> 0,
               assets |-> <<>>, layers |-> <<>>]

NoMetadata == [width |-> 0, height |-> 0]

\* the ways a process is started: one call of optimizeImages, a call
\* followed by another, or the optimize command
Runs ==
  { [config |-> in.config, source |-> in.source, later |-> <<>>, cli |-> FALSE,
     options |-> NoOptions] : in \in Inputs }
  \cup
  { [config |-> in.config, source |-> in.source, later |-> in.later,
     cli |-> FALSE, options |-> NoOptions] : in \in CallInputs }
  \cup
  { [config |-> in.config, source |-> in.source, later |-> <<>>, cli |-> TRUE,
     options |-> in.options] : in \in CommandInputs }

Init ==
  /\ \E run \in Runs :
       /\ config = run.config
       /\ source = run.source
       /\ pending = run.later
       /\ command = [cli |-> run.cli, tempDir |-> FALSE, exit |-> -1,
                     options |-> run.options]
       /\ pc = IF run.cli THEN "command" ELSE "start"
  /\ global = NoGlobal
  /\ files = <<>>
  /\ processed = 0
  /\ frameSkipRatio = FZero
  /\ i = FZero
  /\ selectedFrames = <<>>
  /\ originalMetadata = NoMetadata
  /\ geometry = NoGeometry
  /\ lottieData = NoDocument
  /\ written = FALSE
  /\ animationJson = NoDocument
  /\ lottieFile = <<>>
  /\ error = ""
  /\ produced = {}
  /\ suspended = <<>>
  /\ previous = <<>>

-----------------------------------------------------------------------------
(* The optimize command, up to its call of optimizeImages.                 *)

\* parseInt(string, radix) for a string of decimal digits and a radix of
\* 10 or more: the digits are read in that radix
RECURSIVE ParseInt(_, _)
ParseInt(digits, radix) ==
  IF digits = <<>> THEN 0
  ELSE radix * ParseInt(SubSeq(digits, 1, Len(digits) - 1), radix)
       + digits[Len(digits)]

\* the value of an option declared with parseInt and a default: commander
\* calls the parser as parseInt(argument, previous value), and the previous
\* value is the default
OptionValue(argument, default) ==
  IF argument = Null THEN default ELSE ParseInt(argument[1], default)

\* the input exists; the temp directory is created for a video; the config
\* is built from the options
OptimizeCommand ==
  /\ pc = "command"
  /\ command' = [command EXCEPT !.tempDir = @ \/ config.isVideo]
  /\ config' = [config EXCEPT
                  !.lottieFrameRate = OptionValue(command.options.fps, 15),
                  !.originalFrameRate =
                     OptionValue(command.options.originalFps, 30)]
  /\ pc' = "start"
  /\ UNCHANGED <<source, global, files, processed, selectionVars,
                 documentVars, error, produced, callVars>>

-----------------------------------------------------------------------------
(* optimizeImages                                                          *)

ImageExt(g) == IF g.outputFormat = "webp" THEN ".webp" ELSE ".png"

\* the files of a frame in the output directory of the globals: the
\* processed image, the temporary file of the processing loop and the
\* cropped image of an external asset
ProcessedImage(g, file) == <<g.outputDir, file, "", ImageExt(g)>>

TempImage(g, file) == <<g.outputDir, file, ".temp", ImageExt(g)>>

CroppedImage(g, file) == <<g.outputDir, file, "_cropped", ImageExt(g)>>

\* path.dirname
Dirname(path) == SubSeq(path, 1, Len(path) - 1)

\* the settings optimizeImages writes into the globals for a config
Settings(c) ==
  [outputDir           |-> c.output \o <<"frames">>,
   outputFormat        |-> c.format,
   selfContainedLottie |-> c.selfContainedLottie,
   lottieFrameRate     |-> c.lottieFrameRate,
   originalFrameRate   |-> c.originalFrameRate,
   lottieWidth         |-> c.lottieWidth,
   lottieHeight        |-> c.lottieHeight,
   maintainAspectRatio |-> TRUE,
   cropWidth           |-> c.cropWidth,
   cropHeight          |-> c.cropHeight,
   cropFromCenter      |-> c.cropFromCenter]

\* variant: a crop or a size the config omits keeps its earlier value
OptimizeImages_KeepsOmitted ==
  /\ pc = "start"
  /\ global' = [Settings(config) EXCEPT
                  !.cropWidth   = IF config.cropWidth = Null
                                    THEN global.cropWidth ELSE @,
                  !.lottieWidth = IF config.lottieWidth = Null
                                    THEN global.lottieWidth ELSE @]
  /\ files' = [k \in 1..source.count |-> k]
  /\ processed' = 0
  /\ pc' = "process"
  /\ UNCHANGED <<inputVars, selectionVars, documentVars, error, produced,
                 callVars, command>>

\* the config is copied into the globals and the input directory is listed
\* (for a video: its frames are extracted into the temp directory first)
OptimizeImages ==
  /\ pc = "start"
  /\ global' = Settings(config)
  /\ files' = [k \in 1..source.count |-> k]
  /\ processed' = 0
  /\ pc' = "process"
  /\ UNCHANGED <<inputVars, selectionVars, documentVars, error, produced,
                 callVars, command>>

\* the video cannot be probed or decoded: extractFramesFromVideo rejects
ExtractFramesFails ==
  /\ pc = "start"
  /\ config.isVideo
  /\ global' = Settings(config)
  /\ pc' = "failed"
  /\ error' = "ffmpeg"
  /\ UNCHANGED <<inputVars, files, processed, selectionVars, documentVars,
                 produced, callVars, command>>

\* variant: the temporary file is copied to the final name and left behind
ProcessFile_KeepsTemp ==
  /\ pc = "process"
  /\ processed < Len(files)
  /\ processed' = processed + 1
  /\ produced' = produced \cup {TempImage(global, files[processed + 1]),
                                ProcessedImage(global, files[processed + 1])}
  /\ UNCHANGED <<inputVars, pc, global, files, selectionVars, documentVars,
                 error, callVars, command>>

\* one file is resized into its temporary file, compressed, renamed to its
\* final name, and the temporary file removed if it is still there
ProcessFile ==
  /\ pc = "process"
  /\ processed < Len(files)
  /\ processed' = processed + 1
  /\ LET temp    == TempImage(global, files[processed + 1])
         final   == ProcessedImage(global, files[processed + 1])
         resized == produced \cup {temp}
         renamed == (resized \ {temp}) \cup {final}
     IN  produced' = renamed \ {temp}
  /\ UNCHANGED <<inputVars, pc, global, files, selectionVars, documentVars,
                 error, callVars, command>>

\* a file cannot be read or converted: optimizeImages rejects
ProcessFileFails ==
  /\ pc = "process"
  /\ processed < Len(files)
  /\ pc' = "failed"
  /\ error' = "sharp"
  /\ UNCHANGED <<inputVars, global, files, processed, selectionVars,
                 documentVars, produced, callVars, command>>

-----------------------------------------------------------------------------
(* createLottieAnimation: frame selection                                  *)

\* variant: the skip ratio is taken as target rate / original rate
CreateLottieAnimation_Inverted ==
  /\ pc = "process"
  /\ processed = Len(files)
  /\ frameSkipRatio' = Quotient(global.lottieFrameRate, global.originalFrameRate)
  /\ selectedFrames' = <<>>
  /\ i' = FZero
  /\ pc' = "select"
  /\ UNCHANGED <<inputVars, global, files, processed, documentVars, error,
                 produced, callVars, command>>

\* every file is processed: createLottieAnimation starts
CreateLottieAnimation ==
  /\ pc = "process"
  /\ processed = Len(files)
  /\ frameSkipRatio' = Quotient(global.originalFrameRate, global.lottieFrameRate)
  /\ selectedFrames' = <<>>
  /\ i' = FZero
  /\ pc' = "select"
  /\ UNCHANGED <<inputVars, global, files, processed, documentVars, error,
                 produced, callVars, command>>

\* files[frameIndex]: undefined (0 here) outside the array
FileAt(frameIndex) ==
  IF frameIndex \in 0..(Len(files) - 1) THEN files[frameIndex + 1] ELSE 0

\* variant: lottieIndex counts from 1
PushFrame_OneBased(sel, x) ==
  LET frameIndex == MathFloor(x)
  IN  IF frameIndex < Len(files)
        THEN Append(sel, [originalIndex |-> frameIndex,
                          file          |-> FileAt(frameIndex),
                          lottieIndex   |-> Len(sel) + 1])
        ELSE sel

\* the frame pushed for position x, if any
PushFrame(sel, x) ==
  LET frameIndex == MathFloor(x)
  IN  IF frameIndex < Len(files)
        THEN Append(sel, [originalIndex |-> frameIndex,
                          file          |-> FileAt(frameIndex),
                          lottieIndex   |-> Len(sel)])
        ELSE sel

\* one iteration of the selection loop (a loop that never ends is followed
\* for MaxSelected frames)
SelectFrame ==
  /\ pc = "select"
  /\ FLess(i, Len(files))
  /\ Len(selectedFrames) < MaxSelected
  /\ selectedFrames' = PushFrame(selectedFrames, i)
  /\ i' = FAdd(i, frameSkipRatio)
  /\ UNCHANGED <<inputVars, pc, global, files, processed, frameSkipRatio,
                 documentVars, error, produced, callVars, command>>

-----------------------------------------------------------------------------
(* createLottieAnimation: geometry                                         *)

\* variant: the centre offset is the whole margin, not half of it
ResolveCrop_WholeMargin(meta, g) ==
  IF Truthy(g.cropWidth) \/ Truthy(g.cropHeight)
    THEN LET cw == Min(OrElse(g.cropWidth, meta.width), meta.width)
             ch == Min(OrElse(g.cropHeight, meta.height), meta.height)
         IN  [croppedWidth  |-> cw,
              croppedHeight |-> ch,
              cropOffsetX   |-> IF g.cropFromCenter THEN meta.width - cw ELSE 0,
              cropOffsetY   |-> IF g.cropFromCenter THEN meta.height - ch ELSE 0]
    ELSE [croppedWidth |-> meta.width, croppedHeight |-> meta.height,
          cropOffsetX |-> 0, cropOffsetY |-> 0]

\* the crop rectangle for a frame of size meta under the settings g
ResolveCrop(meta, g) ==
  IF Truthy(g.cropWidth) \/ Truthy(g.cropHeight)
    THEN LET cw == Min(OrElse(g.cropWidth, meta.width), meta.width)
             ch == Min(OrElse(g.cropHeight, meta.height), meta.height)
         IN  [croppedWidth  |-> cw,
              croppedHeight |-> ch,
              cropOffsetX   |-> IF g.cropFromCenter
                                  THEN (meta.width - cw) \div 2 ELSE 0,
              cropOffsetY   |-> IF g.cropFromCenter
                                  THEN (meta.height - ch) \div 2 ELSE 0]
    ELSE [croppedWidth |-> meta.width, croppedHeight |-> meta.height,
          cropOffsetX |-> 0, cropOffsetY |-> 0]

\* variant: the ratio is inverted
ScaleTo_Inverted(a, b, c) == MathRound(FMulInt(FDiv(b, a), c))

\* Math.round((a / b) * c)
ScaleTo(a, b, c) == MathRound(FMulInt(FDiv(a, b), c))

\* variant: a single given dimension leaves the other at its cropped size
ResolveScale_NoAspect(g, croppedWidth, croppedHeight) ==
  IF Truthy(g.lottieWidth) /\ Truthy(g.lottieHeight)
    THEN [width |-> g.lottieWidth[1], height |-> g.lottieHeight[1]]
  ELSE IF Truthy(g.lottieWidth) /\ ~Truthy(g.lottieHeight)
    THEN [width |-> g.lottieWidth[1], height |-> croppedHeight]
  ELSE IF ~Truthy(g.lottieWidth) /\ Truthy(g.lottieHeight)
    THEN [height |-> g.lottieHeight[1], width |-> croppedWidth]
  ELSE [width |-> croppedWidth, height |-> croppedHeight]

\* the final Lottie dimensions for a cropped size under the settings g
ResolveScale(g, croppedWidth, croppedHeight) ==
  IF Truthy(g.lottieWidth) /\ Truthy(g.lottieHeight)
    THEN [width |-> g.lottieWidth[1], height |-> g.lottieHeight[1]]
  ELSE IF Truthy(g.lottieWidth) /\ ~Truthy(g.lottieHeight)
    THEN [width  |-> g.lottieWidth[1],
          height |-> IF g.maintainAspectRatio
                       THEN ScaleTo(g.lottieWidth[1], croppedWidth, croppedHeight)
                       ELSE croppedHeight]
  ELSE IF ~Truthy(g.lottieWidth) /\ Truthy(g.lottieHeight)
    THEN [height |-> g.lottieHeight[1],
          width  |-> IF g.maintainAspectRatio
                       THEN ScaleTo(g.lottieHeight[1], croppedHeight, croppedWidth)
                       ELSE croppedWidth]
  ELSE [width |-> croppedWidth, height |-> croppedHeight]

\* crop and scale together
ResolveGeometry(meta, g) ==
  LET crop  == ResolveCrop(meta, g)
      scale == ResolveScale(g, crop.croppedWidth, crop.croppedHeight)
  IN  [croppedWidth |-> crop.croppedWidth, croppedHeight |-> crop.croppedHeight,
       cropOffsetX |-> crop.cropOffsetX, cropOffsetY |-> crop.cropOffsetY,
       width |-> scale.width, height |-> scale.height]

\* the selection loop is over: the first processed frame is measured, the
\* geometry resolved and the empty document created
MeasureAndResolve ==
  /\ pc = "select"
  /\ ~FLess(i, Len(files))
  /\ Len(files) > 0
  /\ ProcessedImage(global, files[1]) \in produced
  /\ originalMetadata' = [width |-> source.width, height |-> source.height]
  /\ geometry' = ResolveGeometry(originalMetadata', global)
  /\ lottieData' = [fr |-> global.lottieFrameRate, ip |-> 0,
                    op |-> Len(selectedFrames),
                    w |-> geometry'.width, h |-> geometry'.height,
                    assets |-> <<>>, layers |-> <<>>]
  /\ pc' = "assets"
  /\ UNCHANGED <<inputVars, global, files, processed, selectionVars, written,
                 animationJson, lottieFile, error, produced, callVars, command>>

\* no file was found: files[0] is undefined and path.parse throws
NoFirstFile ==
  /\ pc = "select"
  /\ ~FLess(i, Len(files))
  /\ Len(files) = 0
  /\ pc' = "failed"
  /\ error' = "TypeError"
  /\ UNCHANGED <<inputVars, global, files, processed, selectionVars,
                 documentVars, produced, callVars, command>>

\* the first frame's processed image is missing (in the format the globals
\* name) or cannot be read: sharp rejects
MetadataFails ==
  /\ pc = "select"
  /\ ~FLess(i, Len(files))
  /\ Len(files) > 0
  /\ pc' = "failed"
  /\ error' = "metadata"
  /\ UNCHANGED <<inputVars, global, files, processed, selectionVars,
                 documentVars, produced, callVars, command>>

-----------------------------------------------------------------------------
(* createLottieAnimation: assets, layers, animation.json                   *)

Cropping(g) == Truthy(g.cropWidth) \/ Truthy(g.cropHeight)

\* sharp's extract accepts a region that lies inside the image
ExtractOk(geo, meta) ==
  /\ geo.cropOffsetX >= 0 /\ geo.cropOffsetY >= 0
  /\ geo.croppedWidth > 0 /\ geo.croppedHeight > 0
  /\ geo.cropOffsetX + geo.croppedWidth <= meta.width
  /\ geo.cropOffsetY + geo.croppedHeight <= meta.height

\* variant: the data URI is always labelled as PNG
MimeType_AlwaysPng(g) == "image/png"

MimeType(g) == IF g.outputFormat = "webp" THEN "image/webp" ELSE "image/png"

\* variant: the asset id is taken from the frame's index in the source
Asset_ByOriginalIndex(frameData, geo, g) ==
  [id |-> <<"image", frameData.originalIndex>>,
   w  |-> geo.width,
   h  |-> geo.height,
   u  |-> "",
   p  |-> IF g.selfContainedLottie
            THEN [inline |-> TRUE, mime |-> MimeType(g), base |-> frameData.file,
                  cropped |-> Cropping(g), ext |-> ImageExt(g)]
            ELSE [inline |-> FALSE, mime |-> "", base |-> frameData.file,
                  cropped |-> Cropping(g), ext |-> ImageExt(g)],
   e  |-> IF g.selfContainedLottie THEN 1 ELSE 0]

\* the asset of one selected frame
Asset(frameData, geo, g) ==
  [id |-> <<"image", frameData.lottieIndex>>,
   w  |-> geo.width,
   h  |-> geo.height,
   u  |-> "",
   p  |-> IF g.selfContainedLottie
            THEN [inline |-> TRUE, mime |-> MimeType(g), base |-> frameData.file,
                  cropped |-> Cropping(g), ext |-> ImageExt(g)]
            ELSE [inline |-> FALSE, mime |-> "", base |-> frameData.file,
                  cropped |-> Cropping(g), ext |-> ImageExt(g)],
   e  |-> IF g.selfContainedLottie THEN 1 ELSE 0]

\* building the asset reads the frame's processed image: always when
\* embedding, and for a crop
ReadsImage(g) == g.selfContainedLottie \/ Cropping(g)

\* variant: animation.json is rewritten after every asset
AddAsset_WritesEach ==
  /\ pc = "assets"
  /\ Len(lottieData.assets) < Len(selectedFrames)
  /\ Cropping(global) => ExtractOk(geometry, originalMetadata)
  /\ LET frameData == selectedFrames[Len(lottieData.assets) + 1]
     IN  /\ ReadsImage(global) =>
               ProcessedImage(global, frameData.file) \in produced
         /\ lottieData' =
              [lottieData EXCEPT !.assets =
                 Append(@, Asset(frameData, geometry, global))]
         /\ produced' =
              IF ~global.selfContainedLottie /\ Cropping(global)
                THEN produced \cup {CroppedImage(global, frameData.file)}
                ELSE produced
  /\ animationJson' = lottieData'
  /\ lottieFile' = Dirname(global.outputDir) \o <<"animation.json">>
  /\ written' = TRUE
  /\ UNCHANGED <<inputVars, pc, global, files, processed, selectionVars,
                 originalMetadata, geometry, error, callVars, command>>

\* the next selected frame's asset is added (an external cropped asset is
\* also written next to the processed images)
AddAsset ==
  /\ pc = "assets"
  /\ Len(lottieData.assets) < Len(selectedFrames)
  /\ Cropping(global) => ExtractOk(geometry, originalMetadata)
  /\ LET frameData == selectedFrames[Len(lottieData.assets) + 1]
     IN  /\ ReadsImage(global) =>
               ProcessedImage(global, frameData.file) \in produced
         /\ lottieData' =
              [lottieData EXCEPT !.assets =
                 Append(@, Asset(frameData, geometry, global))]
         /\ produced' =
              IF ~global.selfContainedLottie /\ Cropping(global)
                THEN produced \cup {CroppedImage(global, frameData.file)}
                ELSE produced
  /\ UNCHANGED <<inputVars, pc, global, files, processed, selectionVars,
                 originalMetadata, geometry, written, animationJson, lottieFile,
                 error, callVars, command>>

\* sharp rejects the crop region: createLottieAnimation throws
ExtractFails ==
  /\ pc = "assets"
  /\ Len(lottieData.assets) < Len(selectedFrames)
  /\ Cropping(global) /\ ~ExtractOk(geometry, originalMetadata)
  /\ pc' = "failed"
  /\ error' = "extract"
  /\ UNCHANGED <<inputVars, global, files, processed, selectionVars,
                 documentVars, produced, callVars, command>>

\* the frame's processed image is missing or cannot be read: sharp rejects
\* or readFileSync throws, and createLottieAnimation throws
AssetFails ==
  /\ pc = "assets"
  /\ Len(lottieData.assets) < Len(selectedFrames)
  /\ ReadsImage(global)
  /\ pc' = "failed"
  /\ error' = "read"
  /\ UNCHANGED <<inputVars, global, files, processed, selectionVars,
                 documentVars, produced, callVars, command>>

\* variant: the time span is taken from the 1-based layer index
Layer_FromOne(frameData, lottieIndex) ==
  [ind |-> lottieIndex + 1, ty |-> 2, nm |-> frameData.originalIndex + 1,
   refId |-> <<"image", lottieIndex>>,
   ip |-> lottieIndex + 1, op |-> lottieIndex + 2, st |-> 0]

\* the layer of the selected frame at position lottieIndex (0-based)
Layer(frameData, lottieIndex) ==
  [ind |-> lottieIndex + 1, ty |-> 2, nm |-> frameData.originalIndex + 1,
   refId |-> <<"image", lottieIndex>>,
   ip |-> lottieIndex, op |-> lottieIndex + 1, st |-> 0]

\* every asset is in: the layers are built and animation.json is written
WriteDocument ==
  /\ pc = "assets"
  /\ Len(lottieData.assets) = Len(selectedFrames)
  /\ lottieData' =
       [lottieData EXCEPT !.layers =
          [k \in 1..Len(selectedFrames) |-> Layer(selectedFrames[k], k - 1)]]
  /\ animationJson' = lottieData'
  /\ lottieFile' = Dirname(global.outputDir) \o <<"animation.json">>
  /\ written' = TRUE
  /\ pc' = "done"
  /\ UNCHANGED <<inputVars, global, files, processed, selectionVars,
                 originalMetadata, geometry, error, produced, callVars, command>>

-----------------------------------------------------------------------------
(* The earlier optimize.js: every file is a frame, the settings are        *)
(* constants (PNG, embedded, 30 fps, no custom size).                      *)

\* the document its createLottieAnimation builds for n files whose first
\* processed image has size meta
OptimizeJsDocument(n, meta) ==
  [fr |-> 30, ip |-> 0, op |-> n, w |-> meta.width, h |-> meta.height,
   assets |-> [k \in 1..n |->
                 [id |-> <<"image", k - 1>>, w |-> meta.width,
                  h |-> meta.height, u |-> "",
                  p |-> [inline |-> TRUE, mime |-> "image/png", base |-> k,
                         cropped |-> FALSE, ext |-> ".png"],
                  e |-> 1]],
   layers |-> [k \in 1..n |->
                 [ind |-> k, ty |-> 2, nm |-> k, refId |-> <<"image", k - 1>>,
                  ip |-> k - 1, op |-> k, st |-> 0]]]

-----------------------------------------------------------------------------
(* A process that calls optimizeImages again.                              *)

\* what a call leaves behind when it returns or throws
Outcome ==
  [pc |-> pc, config |-> config, selectedFrames |-> selectedFrames,
   geometry |-> geometry, lottieData |-> lottieData, error |-> error]

\* the call has returned or thrown
Returned == pc \in {"done", "failed"}

\* the caller makes its next call after the earlier one has returned or
\* thrown: the new call starts with fresh locals, the globals and the output
\* directory are as the earlier call left them
NextCall ==
  /\ Returned
  /\ ~command.cli
  /\ suspended = <<>>
  /\ pending # <<>>
  /\ previous' = Append(previous, Outcome)
  /\ config' = Head(pending)
  /\ pending' = Tail(pending)
  /\ pc' = "start"
  /\ files' = <<>>
  /\ processed' = 0
  /\ frameSkipRatio' = FZero
  /\ i' = FZero
  /\ selectedFrames' = <<>>
  /\ originalMetadata' = NoMetadata
  /\ geometry' = NoGeometry
  /\ lottieData' = NoDocument
  /\ written' = FALSE
  /\ error' = ""
  /\ UNCHANGED <<source, global, animationJson, lottieFile, produced, suspended,
                 command>>

-----------------------------------------------------------------------------
(* The optimize command, after optimizeImages.                             *)

\* optimizeImages has returned: the temp directory is removed
CommandCleanup ==
  /\ pc = "done"
  /\ command.cli /\ command.exit = -1
  /\ command' = [command EXCEPT !.tempDir = IF config.isVideo THEN FALSE ELSE @,
                                !.exit = 0]
  /\ UNCHANGED <<inputVars, pc, global, files, processed, selectionVars,
                 documentVars, error, produced, callVars>>

\* optimizeImages has thrown: the catch block prints and exits with 1
CommandFails ==
  /\ pc = "failed"
  /\ command.cli /\ command.exit = -1
  /\ command' = [command EXCEPT !.exit = 1]
  /\ UNCHANGED <<inputVars, pc, global, files, processed, selectionVars,
                 documentVars, error, produced, callVars>>

-----------------------------------------------------------------------------

Next ==
  \/ OptimizeCommand
  \/ OptimizeImages
  \/ ExtractFramesFails
  \/ ProcessFile
  \/ ProcessFileFails
  \/ CreateLottieAnimation
  \/ SelectFrame
  \/ MeasureAndResolve
  \/ NoFirstFile
  \/ MetadataFails
  \/ AddAsset
  \/ ExtractFails
  \/ AssetFails
  \/ WriteDocument
  \/ NextCall
  \/ CommandCleanup
  \/ CommandFails

Spec == Init /\ [][Next]_vars

-----------------------------------------------------------------------------
(* Overlapping calls: a second optimizeImages call made while the first    *)
(* one waits at an await.                                                  *)

\* the running call waits at an await: in the processing loop, for the
\* first frame's metadata, or for the crop of the asset before
AtAwait ==
  \/ pc = "process"
  \/ pc = "select" /\ ~FLess(i, Len(files)) /\ Len(files) > 0
  \/ /\ pc = "assets"
     /\ Len(lottieData.assets) >= 1
     /\ lottieData.assets[Len(lottieData.assets)].p.cropped

\* the second call runs up to its first await: it overwrites the globals
OverlappingCall ==
  /\ AtAwait
  /\ ~command.cli
  /\ suspended = <<>>
  /\ pending # <<>>
  /\ global' = Settings(Head(pending))
  /\ suspended' = <<Head(pending)>>
  /\ pending' = Tail(pending)
  /\ UNCHANGED <<inputVars, pc, files, processed, selectionVars, documentVars,
                 error, produced, previous, command>>

\* the second call goes on after the first has returned or thrown (one of
\* the possible schedules): it has listed its files and finds the globals
\* as they are
ResumeCall ==
  /\ Returned
  /\ suspended # <<>>
  /\ previous' = Append(previous, Outcome)
  /\ config' = Head(suspended)
  /\ suspended' = Tail(suspended)
  /\ pc' = "process"
  /\ files' = [k \in 1..source.count |-> k]
  /\ processed' = 0
  /\ frameSkipRatio' = FZero
  /\ i' = FZero
  /\ selectedFrames' = <<>>
  /\ originalMetadata' = NoMetadata
  /\ geometry' = NoGeometry
  /\ lottieData' = NoDocument
  /\ written' = FALSE
  /\ error' = ""
  /\ UNCHANGED <<source, global, animationJson, lottieFile, produced, pending,
                 command>>

ParallelNext ==
  \/ Next
  \/ OverlappingCall
  \/ ResumeCall

ParallelSpec == Init /\ [][ParallelNext]_vars

-----------------------------------------------------------------------------
(* Properties of frame selection.                                          *)

\* the selection loop has run to its end on at least one frame
Selected ==
  /\ Len(files) >= 1
  /\ config.originalFrameRate > 0 /\ config.lottieFrameRate > 0
  /\ pc \in {"assets", "done"} \/ (pc = "failed" /\ error \in {"extract", "read"})

OriginalIndexes ==
  [k \in 1..Len(selectedFrames) |-> selectedFrames[k].originalIndex]

\* lottieIndex counts 0, 1, 2, ... and every originalIndex is a frame
WellIndexed ==
  \A k \in 1..Len(selectedFrames) :
    /\ selectedFrames[k].lottieIndex = k - 1
    /\ selectedFrames[k].originalIndex \in 0..(Len(files) - 1)

StrictlyIncreasing ==
  \A k \in 1..(Len(selectedFrames) - 1) :
    selectedFrames[k].originalIndex < selectedFrames[k + 1].originalIndex

\* the skip ratio originalFrameRate / lottieFrameRate is at least 1
Downsampling == config.originalFrameRate >= config.lottieFrameRate

\* ceil(a / b) for naturals a and b > 0
CeilDiv(a, b) == (a + b - 1) \div b

\* C1 as stated: for every frame count N >= 1 and every pair of positive
\* frame rates the selected frames have lottieIndex 0, 1, ..., every
\* originalIndex lies in [0, N), and originalIndex is strictly increasing.
C1_AsStated == Selected => WellIndexed /\ StrictlyIncreasing

\* C1 amended: the same, for frame rates with originalFrameRate >=
\* lottieFrameRate (skip ratio >= 1); for a skip ratio below 1 a source
\* frame is selected more than once.
C1_SelectionOrdered ==
  /\ Selected => WellIndexed
  /\ Selected /\ Downsampling => StrictlyIncreasing

\* C1 witness: a finished selection of several frames at a fractional skip
\* ratio above 1 (4 / 3), which skips source frame 3
C1_Witness ==
  /\ Selected
  /\ config.originalFrameRate = 4 /\ config.lottieFrameRate = 3
  /\ Len(selectedFrames) >= 4
  /\ selectedFrames[4].originalIndex = 4

C3_ExactIndices ==
  Selected =>
    OriginalIndexes =
      [k \in 1..CeilDiv(Len(files) * config.lottieFrameRate,
                        config.originalFrameRate) |->
         ((k - 1) * config.originalFrameRate) \div config.lottieFrameRate]

\* C4: 121 frames at original rate 30 and target rate 15 select 60 frames,
\* and the written animation has out point 60, 60 assets and 60 layers.
C4_SixtyFrames ==
  (/\ pc = "done"
   /\ Len(files) = 121
   /\ config.originalFrameRate = 30 /\ config.lottieFrameRate = 15)
  => /\ Len(selectedFrames) = 60
     /\ animationJson.op = 60
     /\ Len(animationJson.assets) = 60
     /\ Len(animationJson.layers) = 60

\* C5: playback speed is kept: the document's frame rate is the target rate
\* t, its out point is the number of selected frames, and the output
\* duration selectedCount / t differs from the source duration N / o by
\* less than one output frame period 1 / t
\* (that is, |selectedCount * o - N * t| < o).
C5_SpeedKept ==
  (Selected /\ pc \in {"assets", "done"}) =>
    /\ lottieData.fr = config.lottieFrameRate
    /\ lottieData.op = Len(selectedFrames)
    /\ Abs(Len(selectedFrames) * config.originalFrameRate
           - Len(files) * config.lottieFrameRate) < config.originalFrameRate

\* C23: the frame selection loop ends, for every frame count N >= 0 and
\* every pair of strictly positive frame rates (skip ratios below 1
\* included), after at most ceil(N / skipRatio) iterations.  Every
\* iteration pushes one frame, so the frames pushed count the iterations.
C23_IterationsBounded ==
  (/\ config.originalFrameRate > 0 /\ config.lottieFrameRate > 0
   /\ pc \in {"select", "assets", "done", "failed"})
  => Len(selectedFrames) <= CeilDiv(Len(files) * config.lottieFrameRate,
                                   config.originalFrameRate)

-----------------------------------------------------------------------------
(* Properties of geometry resolution.                                      *)

\* the geometry has been resolved from the first processed frame
Resolved == Selected

Given(v) == v # Null

\* the reference crop rule, on one axis: the cropped extent and the offset
RefCropped(request, extent) ==
  IF Given(config.cropWidth) \/ Given(config.cropHeight)
    THEN Min(IF Given(request) THEN request[1] ELSE extent, extent)
    ELSE extent

RefOffset(request, extent) ==
  IF (Given(config.cropWidth) \/ Given(config.cropHeight)) /\ config.cropFromCenter
    THEN (extent - RefCropped(request, extent)) \div 2
    ELSE 0

\* C6: the resolved crop equals the reference rule: without a crop width
\* and a crop height the cropped size is the source size and the offsets are
\* 0; otherwise each cropped extent is min(request if given else source,
\* source) and each offset is floor((source - cropped) / 2) from the centre
\* and 0 from the top left.  600x800 cropped to 300x400 from the centre has
\* offset (150, 200); a crop width of 900 against 600 gives width 600,
\* offset 0.
C6_CropRule ==
  Resolved =>
    /\ geometry.croppedWidth = RefCropped(config.cropWidth, source.width)
    /\ geometry.croppedHeight = RefCropped(config.cropHeight, source.height)
    /\ geometry.cropOffsetX = RefOffset(config.cropWidth, source.width)
    /\ geometry.cropOffsetY = RefOffset(config.cropHeight, source.height)
    /\ (/\ source.width = 600 /\ source.height = 800
        /\ config.cropWidth = Num(300) /\ config.cropHeight = Num(400))
       => /\ geometry.cropOffsetX = 150 /\ geometry.cropOffsetY = 200
          /\ geometry.croppedWidth = 300 /\ geometry.croppedHeight = 400
    /\ (source.width = 600 /\ config.cropWidth = Num(900))
       => geometry.croppedWidth = 600 /\ geometry.cropOffsetX = 0

\* C6 witness: a 3x3 frame cropped to width 1 from the centre, the height
\* not given: offset (1, 0), size 1x3
C6_Witness ==
  /\ Resolved
  /\ source.width = 3 /\ source.height = 3
  /\ config.cropWidth = Num(1) /\ config.cropHeight = Null
  /\ config.cropFromCenter
  /\ geometry.cropOffsetX = 1 /\ geometry.cropOffsetY = 0
  /\ geometry.croppedWidth = 1 /\ geometry.croppedHeight = 3

\* C7: the crop rectangle lies inside the source frame, for every source
\* size, crop request and anchor.
C7_CropInside ==
  Resolved =>
    /\ 0 <= geometry.cropOffsetX
    /\ 0 <= geometry.cropOffsetY
    /\ geometry.cropOffsetX + geometry.croppedWidth <= originalMetadata.width
    /\ geometry.cropOffsetY + geometry.croppedHeight <= originalMetadata.height

\* C7 witness: a crop request larger than the frame, from the centre
C7_Witness ==
  /\ Resolved
  /\ config.cropFromCenter
  /\ Given(config.cropWidth) /\ config.cropWidth[1] > source.width
  /\ Given(config.cropHeight) /\ config.cropHeight[1] < source.height
  /\ geometry.cropOffsetY > 0

\* the reference scale rule on the cropped size; round, / and * are those
\* of the source language (doubles)
RefOutput ==
  LET lw == config.lottieWidth
      lh == config.lottieHeight
      cw == geometry.croppedWidth
      ch == geometry.croppedHeight
  IN  CASE Given(lw) /\ Given(lh)   -> <<lw[1], lh[1]>>
        [] Given(lw) /\ ~Given(lh)  -> <<lw[1], MathRound(FMulInt(FDiv(lw[1], cw), ch))>>
        [] ~Given(lw) /\ Given(lh)  -> <<MathRound(FMulInt(FDiv(lh[1], ch), cw)), lh[1]>>
        [] ~Given(lw) /\ ~Given(lh) -> <<cw, ch>>

\* C8: the output size is the reference scale rule applied to the cropped
\* size: both given -> exactly (lottieWidth, lottieHeight); only the width
\* given -> (lottieWidth, round(lottieWidth / croppedWidth * croppedHeight));
\* only the height given -> the symmetric rule; neither -> the cropped size.
\* Cropped 300x400 with width 200 gives 200x267.
C8_ScaleRule ==
  Resolved =>
    /\ <<geometry.width, geometry.height>> = RefOutput
    /\ (/\ geometry.croppedWidth = 300 /\ geometry.croppedHeight = 400
        /\ config.lottieWidth = Num(200) /\ config.lottieHeight = Null)
       => geometry.width = 200 /\ geometry.height = 267

\* C8 witness: a 600x800 frame cropped to 300x400 and scaled to width 200
C8_Witness ==
  /\ Resolved
  /\ source.width = 600 /\ source.height = 800
  /\ geometry.croppedWidth = 300 /\ geometry.croppedHeight = 400
  /\ config.lottieWidth = Num(200) /\ config.lottieHeight = Null
  /\ geometry.height = 267

\* C9: with only a target width given (aspect ratio maintained) and
\* positive cropped dimensions, the output height is within 1 pixel of the
\* proportional height:
\* |height * croppedWidth - width * croppedHeight| <= croppedWidth.
C9_AspectKept ==
  (/\ Resolved
   /\ Given(config.lottieWidth) /\ ~Given(config.lottieHeight)
   /\ config.lottieWidth[1] > 0
   /\ geometry.croppedWidth > 0 /\ geometry.croppedHeight > 0)
  => Abs(geometry.height * geometry.croppedWidth
         - geometry.width * geometry.croppedHeight) <= geometry.croppedWidth

\* C9 witness: width 2 on a cropped 3x2 frame: the proportional height 4/3
\* is rounded to 1
C9_Witness ==
  /\ Resolved
  /\ config.lottieWidth = Num(2) /\ config.lottieHeight = Null
  /\ geometry.croppedWidth = 3 /\ geometry.croppedHeight = 2
  /\ geometry.width = 2 /\ geometry.height = 1

PositiveOrAbsent(v) == Given(v) => v[1] > 0

\* C10: for positive source sizes and positive crop and scale requests the
\* document's width and height are both > 0.
C10_PositiveOutput ==
  (/\ pc \in {"assets", "done"}
   /\ source.width > 0 /\ source.height > 0
   /\ PositiveOrAbsent(config.cropWidth) /\ PositiveOrAbsent(config.cropHeight)
   /\ PositiveOrAbsent(config.lottieWidth) /\ PositiveOrAbsent(config.lottieHeight))
  => lottieData.w > 0 /\ lottieData.h > 0

-----------------------------------------------------------------------------
(* Properties of the assembled document.                                   *)

\* the document d has one asset and one layer per frame, count frames in
\* all, in ascending output order, the k-th layer spanning [k - 1, k)
Consistent(d, count) ==
  /\ Len(d.assets) = count
  /\ Len(d.layers) = count
  /\ d.op = count
  /\ \A k \in 1..count :
       /\ d.assets[k].id[2] = k - 1
       /\ d.layers[k].ind = k
       /\ d.layers[k].ip = k - 1
       /\ d.layers[k].op = k
       /\ d.layers[k].st = 0

\* C11: every assembled document is consistent: the number of assets, the
\* number of layers and the out point all equal the number of selected
\* frames, assets and layers are in ascending output order (the k-th asset
\* is that of the k-th selected frame), and the i-th layer (0-based) has in
\* point i, out point i + 1 and start time 0.  The same holds of the
\* earlier optimize.js, where every file is a frame.
C11_DocumentConsistent ==
  pc = "done" =>
    /\ written
    /\ animationJson = lottieData
    /\ Consistent(animationJson, Len(selectedFrames))
    /\ \A k \in 1..Len(selectedFrames) :
         animationJson.assets[k].p.base = selectedFrames[k].file
    /\ Consistent(OptimizeJsDocument(Len(files), originalMetadata), Len(files))

\* C11 witness: a written document of five frames selected from six at the
\* fractional skip ratio 5 / 4
C11_Witness ==
  /\ pc = "done"
  /\ config.originalFrameRate = 5 /\ config.lottieFrameRate = 4
  /\ Len(files) = 6
  /\ Len(animationJson.layers) = 5
  /\ animationJson.layers[5].ip = 4

\* C12: in every assembled document the asset ids are pairwise distinct,
\* the i-th layer (0-based) has index i + 1, and each layer's refId is the
\* id of an asset of the document: the asset built for the same selected
\* frame.
C12_ReferencesResolve ==
  pc = "done" =>
    LET d == animationJson
    IN  /\ \A j, k \in 1..Len(d.assets) : j # k => d.assets[j].id # d.assets[k].id
        /\ \A k \in 1..Len(d.layers) :
             /\ d.layers[k].ind = k
             /\ k \in 1..Len(d.assets)
             /\ d.layers[k].refId = d.assets[k].id
             /\ d.assets[k].id = <<"image", selectedFrames[k].lottieIndex>>
             /\ d.assets[k].p.base = selectedFrames[k].file
             /\ d.layers[k].nm = selectedFrames[k].originalIndex + 1

\* C12 witness: a written document in which a source frame is used twice
\* (skip ratio 1 / 2): two assets of the same image with different ids
C12_Witness ==
  /\ pc = "done"
  /\ Len(animationJson.assets) >= 2
  /\ animationJson.assets[1].p.base = animationJson.assets[2].p.base
  /\ animationJson.layers[2].refId = <<"image", 1>>

\* C13: the embed mode is uniform and exclusive within a document: with
\* selfContainedLottie true every asset has e = 1 and an inline data URI
\* whose MIME type is that of the output format; with it false every asset
\* has e = 0 and a file name (the cropped file's name under a crop), never
\* inline bytes; with or without cropping.
C13_EmbedModeUniform ==
  pc \in {"assets", "done"} =>
    \A k \in 1..Len(lottieData.assets) :
      LET a == lottieData.assets[k]
      IN  /\ config.selfContainedLottie =>
                /\ a.e = 1
                /\ a.p.inline
                /\ \/ config.format = "webp" /\ a.p.mime = "image/webp"
                   \/ config.format = "png" /\ a.p.mime = "image/png"
          /\ ~config.selfContainedLottie =>
                /\ a.e = 0
                /\ ~a.p.inline
                /\ a.p.base = selectedFrames[k].file
                /\ a.p.cropped = (config.cropWidth # Null \/ config.cropHeight # Null)
                /\ \/ config.format = "webp" /\ a.p.ext = ".webp"
                   \/ config.format = "png" /\ a.p.ext = ".png"

\* C13 witness: a written WebP document of two embedded, cropped frames
C13_Witness ==
  /\ pc = "done"
  /\ config.format = "webp" /\ config.selfContainedLottie
  /\ config.cropWidth = Num(1)
  /\ Len(animationJson.assets) = 2
  /\ animationJson.assets[2].e = 1
  /\ animationJson.assets[2].p.mime = "image/webp"

-----------------------------------------------------------------------------
(* Properties of error handling.                                           *)

\* the call has listed its frames and gone on to createLottieAnimation
PastListing == pc \in {"select", "assets", "done"} \/ (pc = "failed" /\ error # "ffmpeg")

\* C14: when no PNG file is found (frame count 0), frame selection fails
\* with an InvalidConfiguration error instead of returning an empty
\* selection.
C14_EmptyInputRejected ==
  (source.count = 0 /\ PastListing) =>
    pc = "failed" /\ error = "InvalidConfiguration"

\* C15: when originalFrameRate <= 0 or lottieFrameRate <= 0, frame
\* selection fails with an InvalidConfiguration error: it neither returns a
\* selection nor runs forever.
C15_BadRatesRejected ==
  (/\ config.originalFrameRate <= 0 \/ config.lottieFrameRate <= 0
   /\ source.count > 0
   /\ PastListing)
  => pc = "failed" /\ error = "InvalidConfiguration"

\* the crop and scale geometry of the running call has been resolved
GeometryResolved ==
  pc \in {"assets", "done"} \/ (pc = "failed" /\ error \in {"extract", "read"})

\* C16: geometry resolution fails with an InvalidConfiguration error
\* whenever a resolved crop dimension is <= 0 (a negative crop width, say)
\* or a source dimension is <= 0: no geometry with a non-positive crop
\* width or height is used to build a document.
C16_BadCropRejected ==
  (/\ GeometryResolved
   /\ \/ geometry.croppedWidth <= 0 \/ geometry.croppedHeight <= 0
      \/ originalMetadata.width <= 0 \/ originalMetadata.height <= 0)
  => pc = "failed" /\ error = "InvalidConfiguration"

\* a document with all its assets and layers
Complete(d) == Len(d.assets) = d.op /\ Len(d.layers) = d.op

\* C17: if producing the asset of a selected frame fails (the crop or the
\* read throws), assembly stops there and the call writes no animation.json:
\* the file is written only once every asset and every layer is built, so
\* what is in animation.json is never a partial document.
C17_NoPartialDocument ==
  /\ (pc = "failed" /\ error \in {"extract", "read"}) =>
       /\ ~written
       /\ Len(lottieData.assets) < Len(selectedFrames)
       /\ lottieData.layers = <<>>
  /\ written =>
       /\ pc = "done"
       /\ animationJson = lottieData
       /\ Len(lottieData.assets) = Len(selectedFrames)
  /\ animationJson # NoDocument => Complete(animationJson)

\* C17 witness: the read of the third frame's image fails after two assets
\* were built; nothing has been written
C17_Witness ==
  /\ pc = "failed" /\ error = "read"
  /\ Len(lottieData.assets) = 2
  /\ Len(selectedFrames) >= 3
  /\ ~written
  /\ animationJson = NoDocument

-----------------------------------------------------------------------------
(* Properties of the optimize command.                                     *)

\* the number a decimal numeral denotes
Typed(argument, default) ==
  IF argument = Null THEN default ELSE ParseInt(argument[1], 10)

\* C21: the command's --fps <n> and --original-fps <n> options set the
\* target and the original frame rate to the decimal integer n the user
\* typed (15 and 30 when omitted): the lottieFrameRate and
\* originalFrameRate passed to optimizeImages equal those numbers.
C21_RatesAsTyped ==
  (command.cli /\ pc # "command") =>
    /\ config.lottieFrameRate = Typed(command.options.fps, 15)
    /\ config.originalFrameRate = Typed(command.options.originalFps, 30)

\* C18: for a video input the temporary directory <output>/temp_frames is
\* removed automatically: once the optimize command has finished, on every
\* path (success, or failure of the extraction, of the frame processing or
\* of the assembly), the directory no longer exists.
C18_TempDirRemoved ==
  (command.cli /\ config.isVideo /\ command.exit # -1) => ~command.tempDir

-----------------------------------------------------------------------------
(* Properties of repeated and overlapping calls.                           *)

\* the geometry the running call's own configuration determines
OwnGeometry ==
  ResolveGeometry([width |-> source.width, height |-> source.height],
                  Settings(config))

\* C19: running the pipeline twice in sequence with identical inputs yields
\* identical selections, crop and output dimensions, and every
\* configuration global is reassigned at the start of each optimizeImages
\* call: a setting of an earlier call (a crop or a width the later call
\* omits) does not reach the later call.
C19_RunsIndependent ==
  /\ pc \notin {"command", "start"} => global = Settings(config)
  /\ GeometryResolved => geometry = OwnGeometry
  /\ (GeometryResolved /\ config.cropWidth = Null /\ config.cropHeight = Null) =>
       /\ geometry.croppedWidth = source.width
       /\ geometry.croppedHeight = source.height
  /\ \A k \in 1..Len(previous) :
       (/\ previous[k].config = config
        /\ previous[k].geometry # NoGeometry
        /\ GeometryResolved)
       => /\ geometry = previous[k].geometry
          /\ selectedFrames = previous[k].selectedFrames
          /\ (pc = "done" /\ previous[k].pc = "done") =>
                lottieData = previous[k].lottieData

\* C19 witness: a call with a crop width of 1 and a width of 2 has returned,
\* and a second call with neither has written its document at the full
\* frame size
C19_Witness ==
  /\ Len(previous) = 1
  /\ previous[1].pc = "done"
  /\ previous[1].config.cropWidth = Num(1)
  /\ previous[1].geometry.croppedWidth = 1
  /\ config = DefaultConfig
  /\ pc = "done"
  /\ geometry.croppedWidth = 3 /\ geometry.width = 3

\* C20: parallel invocations are safe: when two optimizeImages calls with
\* different configurations overlap (interleave at their awaits), each
\* produces the frame selection, geometry and embed mode that its own
\* configuration determines; neither call sees the other's settings.
C20_CallsIsolated ==
  /\ pc \in {"select", "assets", "done"} =>
       frameSkipRatio = Quotient(config.originalFrameRate, config.lottieFrameRate)
  /\ GeometryResolved => geometry = OwnGeometry
  /\ pc \in {"assets", "done"} =>
       /\ lottieData.fr = config.lottieFrameRate
       /\ \A k \in 1..Len(lottieData.assets) :
            /\ lottieData.assets[k].e = IF config.selfContainedLottie THEN 1 ELSE 0
            /\ lottieData.assets[k].p.ext = ImageExt(Settings(config))

-----------------------------------------------------------------------------
(* Properties of the files written.                                        *)

\* the file an external asset with an empty base path u refers to: the
\* file named p in the directory of the animation.json that names it
Referenced(a) ==
  <<Dirname(lottieFile), a.p.base,
    IF a.p.cropped THEN "_cropped" ELSE "", a.p.ext>>

\* C22: in external mode, after a successful run, the file every asset
\* refers to (base path "" plus file name p) exists and lies in the
\* directory of the written animation.json, with cropping (the _cropped
\* file) and without.
C22_ExternalFilesBesideDocument ==
  (pc = "done" /\ ~config.selfContainedLottie) =>
    \A k \in 1..Len(animationJson.assets) :
      /\ animationJson.assets[k].u = ""
      /\ Referenced(animationJson.assets[k]) \in produced

-----------------------------------------------------------------------------
(* Properties of the order of the stages.                                  *)

\* every listed file has its final processed image, and no temporary image
\* is left in the output directory
AllProcessed ==
  /\ processed = Len(files)
  /\ \A k \in 1..Len(files) :
       /\ ProcessedImage(global, files[k]) \in produced
       /\ TempImage(global, files[k]) \notin produced
  /\ \A f \in produced : f[3] # ".temp"

\* the selection loop has run to its end
SelectionOver == ~FLess(i, Len(files))

\* the stage each part of the call's state belongs to has been entered only
\* after the stages before it were over
StagesOrdered ==
  /\ (pc \in {"select", "assets", "done"} \/ selectedFrames # <<>>)
       => AllProcessed
  /\ geometry # NoGeometry =>
       /\ SelectionOver
       /\ pc \in {"assets", "done", "failed"}
       /\ originalMetadata = [width |-> source.width, height |-> source.height]
       /\ geometry = ResolveGeometry(originalMetadata, global)
  /\ lottieData # NoDocument =>
       /\ geometry # NoGeometry
       /\ Len(lottieData.assets) <= Len(selectedFrames)
       /\ \A k \in 1..Len(lottieData.assets) :
            lottieData.assets[k] = Asset(selectedFrames[k], geometry, global)
  /\ lottieData.layers # <<>> =>
       /\ pc = "done"
       /\ Len(lottieData.assets) = Len(selectedFrames)
       /\ Len(lottieData.layers) = Len(selectedFrames)
  /\ written => (pc = "done" /\ lottieData.layers # <<>>)
  /\ pc = "done" => (written /\ lottieData.layers # <<>>)

\* a step of the call (not the start of the next call) does the work of one
\* stage only
OneStageAtATime ==
  pc' # "start" =>
    /\ selectedFrames' # selectedFrames =>
         /\ AllProcessed /\ produced' = produced
         /\ geometry = NoGeometry /\ geometry' = NoGeometry
         /\ Len(selectedFrames') = Len(selectedFrames) + 1
    /\ geometry' # geometry =>
         /\ geometry = NoGeometry /\ SelectionOver
         /\ selectedFrames' = selectedFrames
         /\ lottieData'.assets = <<>>
    /\ lottieData'.assets # lottieData.assets =>
         /\ geometry' = geometry /\ selectedFrames' = selectedFrames
         /\ Len(lottieData'.assets) = Len(lottieData.assets) + 1
         /\ lottieData'.assets[Len(lottieData'.assets)].id
              = <<"image", Len(lottieData.assets)>>
         /\ lottieData'.layers = <<>>
         /\ ~written'
    /\ lottieData'.layers # lottieData.layers =>
         /\ lottieData'.assets = lottieData.assets
         /\ Len(lottieData.assets) = Len(selectedFrames)
         /\ lottieData.layers = <<>>
    /\ written' # written =>
         /\ Len(lottieData'.layers) = Len(selectedFrames)
         /\ animationJson' = lottieData'

\* C24: within one call the stages run strictly in sequence: every listed
\* file, selected or not, has been resized and written to its final
\* processed file, with its temporary file gone, before frame selection
\* starts; the geometry is resolved once, after selection, from the first
\* frame's processed image; and the asset of each selected frame is obtained
\* exactly once, in lottieIndex order, before any layer is built and before
\* animation.json is written.
C24_StagesInSequence == []StagesOrdered /\ [][OneStageAtATime]_vars

\* C24 witness: a call has finished for at least three processed files of
\* which at least one was not selected, with one asset and one layer per
\* selected frame, and the document written
C24_Witness ==
  /\ pc = "done" /\ written
  /\ Len(files) >= 3
  /\ Len(selectedFrames) >= 2 /\ Len(selectedFrames) < Len(files)
  /\ AllProcessed
  /\ Len(lottieData.assets) = Len(selectedFrames)
  /\ Len(lottieData.layers) = Len(selectedFrames)

=============================================================================
